---- MODULE Spec2Model ----
(***************************************************************************)
(* State-machine model of the operator implementations of                  *)
(* cpp/src/codegen/arrow_compute/expr_visitor_impl.h: one ExprVisitor      *)
(* (the context, p_) bound to one ExprVisitorImpl (the operator), driven   *)
(* by a caller that issues Init / Eval / Finish / MakeResultIterator /     *)
(* SetMember / SetDependency in any order.  Kernels are external: every    *)
(* kernel call returns a nondeterministic arrow::Status.  FactorySpec is    *)
(* CreateCodeGenerator of cpp/src/codegen/code_generator_factory.h, called *)
(* by a caller with an external expression analysis.                       *)
(***************************************************************************)
EXTENDS Integers, Sequences, FiniteSets, TLC

(***************************** bounds **************************************)
\* longest parameter column-name list the caller supplies
MaxParams == 2
\* cap on the length of result_fields_ (repeated failing Init calls grow it)
MaxFields == 4

(************************** program constants ******************************)
\* ArrowComputeResultType
ResultTypes == {"None", "Array", "Batch", "BatchIterator"}
\* an indeterminate read of an enum can also give a value outside the enum
Garbage == "Garbage"
Uninit == "Uninit"
\* col_id_ before any assignment (int without initializer)
UninitInt == -2
\* in_record_batch_ before the caller supplies a batch
NullBatch == -1

Variants == {"Split", "Aggregate", "Encode", "Probe", "Take", "NTake",
             "Sort", "Shuffle", "ProbeArrays"}
AggFuncNames == {"sum", "append", "count", "unique", "sum_count", "avgByCount",
                 "min", "max"}
\* one function name outside the recognised set
FuncNames == AggFuncNames \cup {"median"}

\* the schema the operator resolves names against
schema_ == << [name |-> "a", type |-> "int32"], [name |-> "b", type |-> "utf8"] >>
\* column names the caller may pass: both schema fields and an absent one
ColNames == {"a", "b", "z"}
\* number of columns of the batches the caller supplies
BatchSizes == {1, 2}

\* statuses an external kernel call can return
KernelErrors == {"IOError", "NotImplemented"}
KStatuses == {"OK"} \cup KernelErrors

VARIABLES
    \* ---- construction arguments (fixed per operator)
    variant, func_name_, param_field_names_, action_param_list_,
    action_name_list_, member_record_batch_,
    \* ---- ExprVisitorImpl fields
    initialized_, finish_return_type_, kernel_, concat_kernel_,
    col_id_list_, col_id_,
    \* ---- ExprVisitor (context) fields the operator writes
    dependency_result_type_, return_type_,
    result_fields_, result_array_, result_batch_, out,
    \* ---- observation of the last call: the call with the context fields
    \* ---- the caller set for it, returned status, kernel methods invoked,
    \* ---- holders written; and process abort
    last, last_written, crashed,
    \* ---- CreateCodeGenerator: the call as the caller issued it with what
    \* ---- the expression analysis did, the local codegen_type as the switch
    \* ---- read it, the status returned and the caller's *out
    codegen_call, codegen_type, codegen_status, codegen_out

cfgVars == <<variant, func_name_, param_field_names_, action_param_list_,
             action_name_list_, member_record_batch_>>
implVars == <<initialized_, finish_return_type_, kernel_, concat_kernel_,
              col_id_list_, col_id_>>
holderVars == <<result_array_, result_batch_, out, last_written>>
factoryVars == <<codegen_call, codegen_type, codegen_status, codegen_out>>
operatorVars == <<cfgVars, implVars, dependency_result_type_, return_type_,
                  result_fields_, holderVars, last, crashed>>
vars == <<operatorVars, factoryVars>>

(****************************** helpers ************************************)
SeqsUpTo(S, n) == UNION {[1..k -> S] : k \in 0..n}

\* one kernel invocation: the method, what it was handed and what it returned
KCall(m, arg, st) == [m |-> m, arg |-> arg, st |-> st]
Methods(kc) == {kc[i].m : i \in DOMAIN kc}

\* A call as the caller issues it.  The context fields the operator only
\* reads are the call's inputs: in_record_batch_ (its number of columns, or
\* NullBatch) for Eval, in_array_ ("null" or "indices") for the handlers
\* that read it, the index for SetDependency.
NoIndex == -1
Call(name, batch, array) ==
    [name |-> name, in_record_batch_ |-> batch, in_array_ |-> array,
     index |-> NoIndex]
Plain(name) == Call(name, NullBatch, "null")
DependencyCall(index) == [Plain("SetDependency") EXCEPT !.index = index]

Ret(call, st, kc, wr) == [call |-> call, status |-> st, kcalls |-> kc, wrote |-> wr]

\* arrow::Schema::GetFieldIndex: 0-based position of the name, -1 when absent
GetFieldIndex(schema, col_name) ==
    IF \E i \in DOMAIN schema : schema[i].name = col_name
    THEN (CHOOSE i \in DOMAIN schema : schema[i].name = col_name) - 1
    ELSE -1

NullField == [name |-> "null", type |-> "null"]

\* arrow::Schema::GetFieldByName: the field, null when absent
GetFieldByName(schema, col_name) ==
    IF GetFieldIndex(schema, col_name) >= 0
    THEN schema[GetFieldIndex(schema, col_name) + 1]
    ELSE NullField

\* a faulty test of GetFieldIndex's result: -1 passes as a column
NameAbsentOffByOne(id) == id < -1

NameAbsent(id) == id < 0

GetColumnIdAndFieldByName(schema, col_name) ==
    [id |-> GetFieldIndex(schema, col_name),
     field |-> GetFieldByName(schema, col_name),
     status |-> IF NameAbsent(GetFieldIndex(schema, col_name)) THEN "Invalid" ELSE "OK"]

\* The resolving loop of Init: the names are resolved in order, each resolved
\* name is pushed, and the first absent name returns.  n is the number of
\* names resolved before the loop ends.
RECURSIVE ResolvedCount(_, _)
ResolvedCount(schema, names) ==
    IF names = <<>> THEN 0
    ELSE IF GetColumnIdAndFieldByName(schema, Head(names)).status # "OK" THEN 0
    ELSE 1 + ResolvedCount(schema, Tail(names))

ResolvedIds(schema, names) ==
    [i \in 1..ResolvedCount(schema, names) |->
        GetColumnIdAndFieldByName(schema, names[i]).id]

ResolvedFields(schema, names) ==
    [i \in 1..ResolvedCount(schema, names) |->
        GetColumnIdAndFieldByName(schema, names[i]).field]

LoopFails(schema, names) == ResolvedCount(schema, names) < Len(names)

\* in_record_batch_->num_columns(); a null batch gives an indeterminate value
NumColumnsRead(batch) ==
    IF batch = NullBatch THEN 0..Len(schema_) ELSE {batch}

\* reading finish_return_type_, which has no initializer
FinishReturnTypeRead ==
    IF finish_return_type_ = Uninit THEN ResultTypes \cup {Garbage}
    ELSE {finish_return_type_}

\* the bounds check of the Eval loops: col_id >= num_columns
ColIdTooBig(col_id, n) == col_id >= n

\* a checked gathering loop returns Invalid at the first index that fails the check
CheckedLoopFails(ids, n) == \E i \in DOMAIN ids : ColIdTooBig(ids[i], n)

\* in_record_batch_->column(col_id) is defined only on a batch holding that column
ColumnDefined(batch, col_id) ==
    /\ batch # NullBatch
    /\ col_id >= 0
    /\ col_id < batch

\* kernel state after a successful Evaluate / Finish / MakeResultIterator
AfterEvaluate(k) == IF k = "fresh" THEN "evaluated" ELSE k
AfterFinish(k) == IF k = "null" THEN k ELSE "finished"

\* the process aborts inside `call` (undefined behaviour taking its crash outcome)
Crash(call) ==
    /\ crashed' = TRUE
    /\ last' = Ret(call, "Crash", <<>>, {})
    /\ UNCHANGED <<cfgVars, implVars, dependency_result_type_,
                   return_type_, result_fields_, holderVars, factoryVars>>

\* `call` returns st having changed nothing
Fail(call, st, kc) ==
    /\ last' = Ret(call, st, kc, {})
    /\ UNCHANGED <<cfgVars, implVars, dependency_result_type_,
                   return_type_, result_fields_, holderVars, crashed, factoryVars>>

(******************************* Init **************************************)
InitImpl ==
    /\ initialized_ = FALSE
    /\ finish_return_type_ = Uninit
    /\ kernel_ = "null"
    /\ concat_kernel_ = "null"
    /\ col_id_list_ = <<>>
    /\ col_id_ = UninitInt

InitContext ==
    /\ member_record_batch_ = "member_batch"
    /\ dependency_result_type_ = "None"
    /\ return_type_ = "None"
    /\ result_fields_ = <<>>
    /\ result_array_ = "null"
    /\ result_batch_ = "null"
    /\ out = "null"

InitArgs ==
    /\ variant \in Variants
    /\ func_name_ \in (IF variant = "Aggregate" THEN FuncNames ELSE {""})
    /\ param_field_names_ \in
          (IF variant = "Split" THEN {<<>>} ELSE SeqsUpTo(ColNames, MaxParams))
    /\ action_param_list_ \in
          (IF variant = "Split" THEN SeqsUpTo(ColNames, MaxParams) ELSE {<<>>})
    /\ action_name_list_ \in
          (IF variant = "Split" THEN {<<>>, <<"action_sum">>} ELSE {<<>>})

\* CreateCodeGenerator has not been called: the caller's *out is a null
\* shared_ptr and there is no local codegen_type yet
NullGenerator == [generator |-> "null"]
NoCall == [name |-> "none"]
FactoryIdle ==
    /\ codegen_call = NoCall
    /\ codegen_type = Uninit
    /\ codegen_status = "none"
    /\ codegen_out = NullGenerator

Init ==
    /\ InitArgs
    /\ InitImpl
    /\ InitContext
    /\ last = Ret(Plain("Make"), "OK", <<>>, {})
    /\ last_written = "None"
    /\ crashed = FALSE
    /\ FactoryIdle

(**************************** the caller ***********************************)
CallerRet == Ret(Plain("Caller"), "OK", <<>>, {})

\* the caller records what the previous stage produced
SetDependencyResultType ==
    /\ ~crashed
    /\ \E t \in ResultTypes \ {dependency_result_type_} :
         dependency_result_type_' = t
    /\ last' = CallerRet
    /\ UNCHANGED <<cfgVars, implVars, return_type_, result_fields_,
                   holderVars, crashed, factoryVars>>

\* the inputs the caller can set before a call
BatchInputs == BatchSizes \cup {NullBatch}
ArrayInputs == {"null", "indices"}

(************************** Init of the operators **************************)
\* a faulty guard: Init never notices that it already ran
InitGuardDropped == FALSE

\* the guard every Init starts with
AlreadyInitialized == initialized_

\* room left under the caps for one more run of a resolving loop
InitRoom(names) ==
    /\ Len(result_fields_) + Len(names) + 1 <= MaxFields
    /\ Len(col_id_list_) + Len(names) <= MaxFields

TypesOf(fields) == [i \in DOMAIN fields |-> fields[i].type]

InitFrame == UNCHANGED <<cfgVars, finish_return_type_,
                         dependency_result_type_, return_type_, holderVars, crashed,
                         factoryVars>>

\* Init returns st after the kernel calls kc; the fields named are the new values
InitResult(st, kc, ini, k, ck, ids, cid, rf) ==
    /\ last' = Ret(Plain("Init"), st, kc, {})
    /\ initialized_' = ini
    /\ kernel_' = k
    /\ concat_kernel_' = ck
    /\ col_id_list_' = ids
    /\ col_id_' = cid
    /\ result_fields_' = rf
    /\ InitFrame

SplitInit ==
    /\ variant = "Split" /\ ~crashed
    /\ IF AlreadyInitialized THEN Fail(Plain("Init"), "OK", <<>>)
       ELSE IF action_name_list_ = <<>> THEN Fail(Plain("Init"), "Invalid", <<>>)
       ELSE LET names == action_param_list_
                rf == result_fields_ \o ResolvedFields(schema_, names)
                ids == col_id_list_ \o ResolvedIds(schema_, names)
                mk(st) == KCall("Make", TypesOf(ResolvedFields(schema_, names)), st)
            IN /\ InitRoom(names)
               /\ IF LoopFails(schema_, names)
                  THEN InitResult("Invalid", <<>>, FALSE, kernel_, concat_kernel_,
                                  ids, col_id_, rf)
                  ELSE \E ks \in KStatuses :
                         IF ks = "OK"
                         THEN InitResult("OK", <<mk("OK")>>, TRUE, "fresh", concat_kernel_,
                                         ids, col_id_, rf)
                         ELSE InitResult(ks, <<mk(ks)>>, FALSE, kernel_, concat_kernel_,
                                         ids, col_id_, rf)

\* the kernel an aggregate function name selects: its Make arguments, or none
AggTypedFuncs == {"sum", "count", "sum_count", "avgByCount", "min", "max"}
AggUntypedFuncs == {"append", "unique"}
CntField == [name |-> "cnt", type |-> "int64"]

\* result_fields_ after the function-name dispatch, before the kernel's Make
AggFieldsAfterDispatch(func, rf) ==
    IF func = "sum_count" THEN Append(rf, CntField)
    ELSE IF func = "avgByCount" /\ rf # <<>> THEN SubSeq(rf, 1, Len(rf) - 1)
    ELSE rf

AggregateInit ==
    /\ variant = "Aggregate" /\ ~crashed
    /\ IF AlreadyInitialized THEN Fail(Plain("Init"), "OK", <<>>)
       ELSE LET names == param_field_names_
                rf == result_fields_ \o ResolvedFields(schema_, names)
                ids == col_id_list_ \o ResolvedIds(schema_, names)
                \* result_fields_[0] of an empty vector is undefined
                data_type == IF rf = <<>> THEN Garbage ELSE rf[1].type
                rf2 == AggFieldsAfterDispatch(func_name_, rf)
                mk(st) == KCall("Make", IF func_name_ \in AggTypedFuncs
                                        THEN <<data_type>> ELSE <<>>, st)
            IN /\ InitRoom(names)
               /\ IF LoopFails(schema_, names)
                  THEN InitResult("Invalid", <<>>, FALSE, kernel_, concat_kernel_,
                                  ids, col_id_, rf)
                  ELSE \/ /\ rf = <<>>
                          /\ Crash(Plain("Init"))
                       \/ IF func_name_ \in AggTypedFuncs \cup AggUntypedFuncs
                          THEN \E ks \in KStatuses :
                                 IF ks = "OK"
                                 THEN InitResult("OK", <<mk("OK")>>, TRUE, "fresh",
                                                 concat_kernel_, ids, col_id_, rf2)
                                 ELSE InitResult(ks, <<mk(ks)>>, FALSE, kernel_,
                                                 concat_kernel_, ids, col_id_, rf2)
                          ELSE InitResult("OK", <<>>, TRUE, kernel_, concat_kernel_,
                                          ids, col_id_, rf2)

ResField(type) == [name |-> "res", type |-> type]

EncodeInit ==
    /\ variant = "Encode" /\ ~crashed
    /\ IF AlreadyInitialized THEN Fail(Plain("Init"), "OK", <<>>)
       ELSE LET names == param_field_names_
                ids == col_id_list_ \o ResolvedIds(schema_, names)
                types == TypesOf(ResolvedFields(schema_, names))
                mk(st) == KCall("Make", <<>>, st)
                cmk(st) == KCall("concat.Make", types, st)
            IN /\ InitRoom(names)
               /\ \E ks \in KStatuses :
                    IF ks # "OK"
                    THEN InitResult(ks, <<mk(ks)>>, FALSE, kernel_, concat_kernel_,
                                    col_id_list_, col_id_, result_fields_)
                    ELSE IF LoopFails(schema_, names)
                    THEN InitResult("Invalid", <<mk("OK")>>, FALSE, "fresh", concat_kernel_,
                                    ids, col_id_, result_fields_)
                    ELSE IF Len(types) > 1
                    THEN \E cs \in KStatuses :
                           IF cs = "OK"
                           THEN InitResult("OK", <<mk("OK"), cmk("OK")>>, TRUE, "fresh", "fresh", ids,
                                           col_id_, Append(result_fields_, ResField("uint32")))
                           ELSE InitResult(cs, <<mk("OK"), cmk(cs)>>, FALSE, "fresh", concat_kernel_,
                                           ids, col_id_, result_fields_)
                    ELSE InitResult("OK", <<mk("OK")>>, TRUE, "fresh", concat_kernel_, ids,
                                    col_id_, Append(result_fields_, ResField("uint32")))

\* a faulty test: only the empty parameter list is refused
NoParameter(names) == Len(names) = 0

\* param_field_names_.size() != 1
NotOneParameter(names) == Len(names) # 1

\* Init of the operators that resolve exactly one column into col_id_
SingleColumnInit ==
    IF AlreadyInitialized THEN Fail(Plain("Init"), "OK", <<>>)
    ELSE LET names == param_field_names_
             mk(st) == KCall("Make", <<>>, st)
         IN /\ InitRoom(names)
            /\ \E ks \in KStatuses :
                 IF ks # "OK"
                 THEN InitResult(ks, <<mk(ks)>>, FALSE, kernel_, concat_kernel_,
                                 col_id_list_, col_id_, result_fields_)
                 ELSE IF NotOneParameter(names)
                 THEN InitResult("Invalid", <<mk("OK")>>, FALSE, "fresh", concat_kernel_,
                                 col_id_list_, col_id_, result_fields_)
                 ELSE LET r == GetColumnIdAndFieldByName(schema_, names[1])
                      IN IF r.status # "OK"
                         THEN InitResult(r.status, <<mk("OK")>>, FALSE, "fresh", concat_kernel_,
                                         col_id_list_, r.id, result_fields_)
                         ELSE InitResult("OK", <<mk("OK")>>, TRUE, "fresh", concat_kernel_,
                                         col_id_list_, r.id,
                                         Append(result_fields_, r.field))

ProbeInit == variant = "Probe" /\ ~crashed /\ SingleColumnInit
TakeInit == variant = "Take" /\ ~crashed /\ SingleColumnInit
NTakeInit == variant = "NTake" /\ ~crashed /\ SingleColumnInit
SortArraysToIndicesInit == variant = "Sort" /\ ~crashed /\ SingleColumnInit

ShuffleInit ==
    /\ variant = "Shuffle" /\ ~crashed
    /\ IF AlreadyInitialized THEN Fail(Plain("Init"), "OK", <<>>)
       ELSE LET names == param_field_names_
                rf == result_fields_ \o ResolvedFields(schema_, names)
                ids == col_id_list_ \o ResolvedIds(schema_, names)
                mk(st) == KCall("Make", TypesOf(ResolvedFields(schema_, names)), st)
            IN /\ InitRoom(names)
               /\ IF LoopFails(schema_, names)
                  THEN InitResult("Invalid", <<>>, FALSE, kernel_, concat_kernel_,
                                  ids, col_id_, rf)
                  ELSE \E ks \in KStatuses :
                         IF ks = "OK"
                         THEN InitResult("OK", <<mk("OK")>>, TRUE, "fresh", concat_kernel_,
                                         ids, col_id_, rf)
                         ELSE InitResult(ks, <<mk(ks)>>, FALSE, kernel_, concat_kernel_,
                                         ids, col_id_, rf)

ProbeArraysInit ==
    /\ variant = "ProbeArrays" /\ ~crashed
    /\ IF AlreadyInitialized THEN Fail(Plain("Init"), "OK", <<>>)
       ELSE LET names == param_field_names_
                ids == col_id_list_ \o ResolvedIds(schema_, names)
                types == TypesOf(ResolvedFields(schema_, names))
                cmk(st) == KCall("concat.Make", types, st)
                \* type_list[0] of an empty vector is undefined
                data_type == IF Len(types) > 1 THEN "int64"
                             ELSE IF types = <<>> THEN Garbage ELSE types[1]
                mk(st) == KCall("Make", <<data_type>>, st)
                res == Append(result_fields_, ResField("fixed_size_binary"))
            IN /\ InitRoom(names)
               /\ IF LoopFails(schema_, names)
                  THEN InitResult("Invalid", <<>>, FALSE, kernel_, concat_kernel_,
                                  ids, col_id_, result_fields_)
                  ELSE IF Len(types) > 1
                  THEN \E cs \in KStatuses :
                         IF cs # "OK"
                         THEN InitResult(cs, <<cmk(cs)>>, FALSE, kernel_, concat_kernel_,
                                         ids, col_id_, result_fields_)
                         ELSE \E ks \in KStatuses :
                                IF ks = "OK"
                                THEN InitResult("OK", <<cmk("OK"), mk("OK")>>, TRUE, "fresh", "fresh",
                                                ids, col_id_, res)
                                ELSE InitResult(ks, <<cmk("OK"), mk(ks)>>, FALSE, kernel_, "fresh",
                                                ids, col_id_, result_fields_)
                  ELSE \/ /\ types = <<>>
                          /\ Crash(Plain("Init"))
                       \/ \E ks \in KStatuses :
                            IF ks = "OK"
                            THEN InitResult("OK", <<mk("OK")>>, TRUE, "fresh", concat_kernel_,
                                            ids, col_id_, res)
                            ELSE InitResult(ks, <<mk(ks)>>, FALSE, kernel_, concat_kernel_,
                                            ids, col_id_, result_fields_)

(*********************** Eval / Finish / iterators *************************)
NoUpd == [none |-> TRUE]
Upd(u, f, old) == IF f \in DOMAIN u THEN u[f] ELSE old
Holders == {"result_array_", "result_batch_", "out"}

\* `call` returns st after the kernel calls kc, having assigned the fields of u
Step(call, st, kc, u) ==
    /\ last' = Ret(call, st, kc, Holders \cap DOMAIN u)
    /\ kernel_' = Upd(u, "kernel_", kernel_)
    /\ concat_kernel_' = Upd(u, "concat_kernel_", concat_kernel_)
    /\ finish_return_type_' = Upd(u, "finish_return_type_", finish_return_type_)
    /\ dependency_result_type_' = Upd(u, "dependency_result_type_", dependency_result_type_)
    /\ return_type_' = Upd(u, "return_type_", return_type_)
    /\ result_array_' = Upd(u, "result_array_", result_array_)
    /\ result_batch_' = Upd(u, "result_batch_", result_batch_)
    /\ out' = Upd(u, "out", out)
    /\ last_written' = IF "result_array_" \in DOMAIN u THEN "Array"
                       ELSE IF "result_batch_" \in DOMAIN u THEN "Batch"
                       ELSE IF "out" \in DOMAIN u THEN "BatchIterator"
                       ELSE last_written
    /\ UNCHANGED <<cfgVars, initialized_, col_id_list_, col_id_,
                   result_fields_, crashed, factoryVars>>

\* a faulty macro: every kernel error is reported as Invalid
ReturnInvalid(st) == "Invalid"

\* RETURN_NOT_OK / TIME_MICRO_OR_RAISE: the status the handler returns when
\* the call it wraps returned the error st
ReturnNotOk(st) == st

\* The last kernel call of a handler, kernel_->m(arg), after the calls pre:
\* an error returns at once with only uErr assigned; OK assigns uOk.
\* A call through a null kernel_ is undefined: it aborts, or returns anything
\* without a kernel having run.
CallKernel(call, pre, m, arg, uOk, uErr) ==
    \/ /\ kernel_ = "null"
       /\ Crash(call)
    \/ \E ks \in KStatuses :
         IF ks = "OK"
         THEN Step(call, "OK", Append(pre, KCall(m, arg, ks)), uOk)
         ELSE Step(call, ReturnNotOk(ks), Append(pre, KCall(m, arg, ks)), uErr)

\* col_id_ read before any assignment is indeterminate
ColIdRead == IF col_id_ = UninitInt THEN -1..Len(schema_) ELSE {col_id_}

\* what in_record_batch_->column(col_id) hands back
Column(batch, col_id) ==
    IF ColumnDefined(batch, col_id) THEN "col" \o ToString(col_id) ELSE Garbage
Columns(batch, ids) == [i \in DOMAIN ids |-> Column(batch, ids[i])]
AllDefined(batch, ids) == \A i \in DOMAIN ids : ColumnDefined(batch, ids[i])

\* the dependency_result_type_ tags each Eval has a case for
SplitTags == {"Array"}
AggregateTags == {"None"}
EncodeTags == {"None"}
SingleColumnTags == {"None"}
SortTags == {"None"}
ShuffleTags == {"None", "BatchIterator"}
ProbeArraysTags == {"None"}

\* a gathering loop with the bounds check: Invalid at the first index too big
CheckedGather(call, ids, then) ==
    \/ /\ call.in_record_batch_ = NullBatch /\ ids # <<>>
       /\ Crash(call)
    \/ \E n \in NumColumnsRead(call.in_record_batch_) :
         IF CheckedLoopFails(ids, n) THEN Fail(call, "Invalid", <<>>)
         ELSE then

\* a faulty Eval: the tag it consumed is left in place
SplitEvaluatedTagKept == [kernel_ |-> AfterEvaluate(kernel_),
                          finish_return_type_ |-> "Batch"]

\* what a successful Eval of Split assigns
SplitEvaluated == [kernel_ |-> AfterEvaluate(kernel_),
                   finish_return_type_ |-> "Batch",
                   dependency_result_type_ |-> "None"]

SplitEval ==
    /\ variant = "Split" /\ ~crashed
    /\ \E batch \in BatchInputs, in_array_ \in ArrayInputs :
         LET call == Call("Eval", batch, in_array_)
         IN IF dependency_result_type_ \notin SplitTags
            THEN Fail(call, "NotImplemented", <<>>)
            ELSE CheckedGather(call, col_id_list_,
                   CallKernel(call, <<>>, "Evaluate",
                              Append(Columns(batch, col_id_list_), in_array_),
                              SplitEvaluated, NoUpd))

AggregateEval ==
    /\ variant = "Aggregate" /\ ~crashed
    /\ \E batch \in BatchInputs :
         LET call == Call("Eval", batch, "null")
         IN IF dependency_result_type_ \notin AggregateTags
            THEN Fail(call, "NotImplemented", <<>>)
            ELSE CheckedGather(call, col_id_list_,
                   CallKernel(call, <<>>, "Evaluate", Columns(batch, col_id_list_),
                              [kernel_ |-> AfterEvaluate(kernel_),
                               finish_return_type_ |-> "Batch"],
                              NoUpd))

\* col_id_list_[0] names a column of the batch (undefined on an empty list)
FirstKeyDefined(batch) ==
    IF col_id_list_ = <<>> THEN FALSE ELSE ColumnDefined(batch, col_id_list_[1])

\* a faulty Eval: the composition kernel is never used
ConcatKernelIgnored == FALSE

\* if (concat_kernel_): Init made a composition kernel
ConcatKernelBound == concat_kernel_ # "null"

\* The key column of Encode and ProbeArrays: several keys are composed by
\* concat_kernel_, one key is read from the batch (no bounds check either
\* way); the kernel then evaluates the key column, assigning uOk on success.
KeyColumn(call, uOk) ==
    IF ConcatKernelBound
    THEN \/ /\ ~AllDefined(call.in_record_batch_, col_id_list_)
            /\ Crash(call)
         \/ \E cs \in KStatuses :
              LET c == KCall("concat.Evaluate",
                             Columns(call.in_record_batch_, col_id_list_), cs)
              IN IF cs = "OK"
                 THEN CallKernel(call, <<c>>, "Evaluate", <<"composed">>, uOk, NoUpd)
                 ELSE Step(call, ReturnNotOk(cs), <<c>>, NoUpd)
    ELSE \/ /\ ~FirstKeyDefined(call.in_record_batch_)
            /\ Crash(call)
         \/ CallKernel(call, <<>>, "Evaluate",
                       <<IF col_id_list_ = <<>> THEN Garbage
                         ELSE Column(call.in_record_batch_, col_id_list_[1])>>,
                       uOk, NoUpd)

\* what a successful Eval of Encode assigns
EncodeEvaluated == [kernel_ |-> AfterEvaluate(kernel_), result_array_ |-> "ids",
                    return_type_ |-> "Array"]

EncodeEval ==
    /\ variant = "Encode" /\ ~crashed
    /\ \E batch \in BatchInputs :
         LET call == Call("Eval", batch, "null")
         IN IF dependency_result_type_ \notin EncodeTags
            THEN Fail(call, "NotImplemented", <<>>)
            ELSE KeyColumn(call, EncodeEvaluated)

\* Eval of Probe, Take and NTake: one column read without a bounds check
SingleColumnEval ==
    \E batch \in BatchInputs :
      LET call == Call("Eval", batch, "null")
      IN IF dependency_result_type_ \notin SingleColumnTags
         THEN Fail(call, "NotImplemented", <<>>)
         ELSE \E c \in ColIdRead :
                \/ /\ ~ColumnDefined(batch, c)
                   /\ Crash(call)
                \/ CallKernel(call, <<>>, "Evaluate", <<Column(batch, c)>>,
                              [kernel_ |-> AfterEvaluate(kernel_),
                               finish_return_type_ |-> "Array"],
                              NoUpd)

ProbeEval == variant = "Probe" /\ ~crashed /\ SingleColumnEval
TakeEval == variant = "Take" /\ ~crashed /\ SingleColumnEval
NTakeEval == variant = "NTake" /\ ~crashed /\ SingleColumnEval

SortArraysToIndicesEval ==
    /\ variant = "Sort" /\ ~crashed
    /\ \E batch \in BatchInputs :
         LET call == Call("Eval", batch, "null")
         IN IF dependency_result_type_ \notin SortTags
            THEN Fail(call, "NotImplemented", <<>>)
            ELSE \E c \in ColIdRead :
                   \/ /\ batch = NullBatch
                      /\ Crash(call)
                   \/ \E n \in NumColumnsRead(batch) :
                        IF ColIdTooBig(c, n) THEN Fail(call, "Invalid", <<>>)
                        ELSE \/ /\ ~ColumnDefined(batch, c)
                                /\ Crash(call)
                             \/ CallKernel(call, <<>>, "Evaluate", <<Column(batch, c)>>,
                                           [kernel_ |-> AfterEvaluate(kernel_),
                                            finish_return_type_ |-> "Array"],
                                           NoUpd)

ShuffleEval ==
    /\ variant = "Shuffle" /\ ~crashed
    /\ \E batch \in BatchInputs :
         LET call == Call("Eval", batch, "null")
         IN CheckedGather(call, col_id_list_,
              IF dependency_result_type_ \notin ShuffleTags
              THEN Fail(call, "NotImplemented", <<>>)
              ELSE IF dependency_result_type_ = "None"
              THEN CallKernel(call, <<>>, "Evaluate", Columns(batch, col_id_list_),
                              [kernel_ |-> AfterEvaluate(kernel_),
                               finish_return_type_ |-> "Batch"],
                              NoUpd)
              ELSE CallKernel(call, <<>>, "Evaluate", Columns(batch, col_id_list_),
                              [kernel_ |-> AfterEvaluate(kernel_),
                               result_batch_ |-> "shuffled",
                               return_type_ |-> "Batch"],
                              NoUpd))

\* what a successful Eval of ProbeArrays assigns
ProbeArraysEvaluated == [kernel_ |-> AfterEvaluate(kernel_),
                         finish_return_type_ |-> "Batch"]

ProbeArraysEval ==
    /\ variant = "ProbeArrays" /\ ~crashed
    /\ \E batch \in BatchInputs :
         LET call == Call("Eval", batch, "null")
         IN IF dependency_result_type_ \notin ProbeArraysTags
            THEN Fail(call, "NotImplemented", <<>>)
            ELSE KeyColumn(call, ProbeArraysEvaluated)

(******************************* Finish ************************************)
\* the finish_return_type_ each Finish / MakeResultIterator has a case for
BatchFinishType == "Batch"
ArrayFinishType == "Array"

\* what a successful Finish into result_batch_ assigns
BatchFinished == [kernel_ |-> AfterFinish(kernel_), result_batch_ |-> "batch",
                  return_type_ |-> "Batch"]

\* Finish of Split and Aggregate
BatchFinish ==
    \E frt \in FinishReturnTypeRead :
      IF frt = BatchFinishType
      THEN CallKernel(Plain("Finish"), <<>>, "Finish", <<>>, BatchFinished, NoUpd)
      ELSE Fail(Plain("Finish"), "NotImplemented", <<>>)

SplitFinish == variant = "Split" /\ ~crashed /\ BatchFinish
AggregateFinish == variant = "Aggregate" /\ ~crashed /\ BatchFinish

\* Finish of Encode only reports the time spent composing keys
EncodeFinish == variant = "Encode" /\ ~crashed /\ Fail(Plain("Finish"), "OK", <<>>)

\* a faulty Finish: the array is written but announced as a batch
ArrayFinishedAsBatch == [kernel_ |-> AfterFinish(kernel_), result_array_ |-> "array",
                         return_type_ |-> "Batch"]

\* what a successful Finish into result_array_ assigns
ArrayFinished == [kernel_ |-> AfterFinish(kernel_), result_array_ |-> "array",
                  return_type_ |-> "Array"]

\* Finish of Probe, Take, NTake and SortArraysToIndices
ArrayFinish ==
    \E frt \in FinishReturnTypeRead :
      IF frt = ArrayFinishType
      THEN CallKernel(Plain("Finish"), <<>>, "Finish", <<>>, ArrayFinished, NoUpd)
      ELSE Fail(Plain("Finish"), "NotImplemented", <<>>)

ProbeFinish == variant = "Probe" /\ ~crashed /\ ArrayFinish
TakeFinish == variant = "Take" /\ ~crashed /\ ArrayFinish
NTakeFinish == variant = "NTake" /\ ~crashed /\ ArrayFinish
SortArraysToIndicesFinish == variant = "Sort" /\ ~crashed /\ ArrayFinish

\* the switch on finish_return_type_ of Shuffle's Finish and
\* MakeResultIterator: the Batch case calls kernel method m, any other
\* value is Invalid
ShuffleSwitch(call, pre, m, uOk) ==
    \E frt \in FinishReturnTypeRead :
      IF frt = BatchFinishType
      THEN CallKernel(call, pre, m, <<>>, uOk, NoUpd)
      ELSE Step(call, "Invalid", pre, NoUpd)

\* kernel_->SetDependencyInput(in_array_), then the switch
WithDependencyInput(call, m, uOk) ==
    \/ /\ kernel_ = "null"
       /\ Crash(call)
    \/ \E ks \in KStatuses :
         LET c == KCall("SetDependencyInput", <<call.in_array_>>, ks)
         IN IF ks = "OK" THEN ShuffleSwitch(call, <<c>>, m, uOk)
            ELSE Step(call, ReturnNotOk(ks), <<c>>, NoUpd)

\* Finish refuses to run without an indices array
InArrayMissing(in_array_) == in_array_ = "null"

ShuffleFinish ==
    /\ variant = "Shuffle" /\ ~crashed
    /\ \E in_array_ \in ArrayInputs :
         LET call == Call("Finish", NullBatch, in_array_)
         IN IF InArrayMissing(in_array_) THEN Fail(call, "Invalid", <<>>)
            ELSE WithDependencyInput(call, "Finish", BatchFinished)

\* Finish of ProbeArrays only reports the time spent composing keys
ProbeArraysFinish ==
    variant = "ProbeArrays" /\ ~crashed /\ Fail(Plain("Finish"), "OK", <<>>)

(************************* MakeResultIterator ******************************)
\* a faulty base class: the wrong error kind
BaseIteratorStatusInvalid == "Invalid"

\* ExprVisitorImpl::MakeResultIterator, inherited by the variants without their own
BaseIteratorStatus == "NotImplemented"

BaseMakeResultIterator ==
    /\ variant \in {"Aggregate", "Encode", "Probe", "Take", "NTake", "Sort"}
    /\ ~crashed
    /\ Fail(Plain("MakeResultIterator"), BaseIteratorStatus, <<>>)

\* what a successful MakeResultIterator assigns
IteratorMade == [kernel_ |-> AfterFinish(kernel_), out |-> "iterator",
                 return_type_ |-> "BatchIterator"]
ProbeArraysIteratorMade == [kernel_ |-> AfterFinish(kernel_), out |-> "iterator"]

SplitMakeResultIterator ==
    /\ variant = "Split" /\ ~crashed
    /\ \E frt \in FinishReturnTypeRead :
         IF frt = BatchFinishType
         THEN CallKernel(Plain("MakeResultIterator"), <<>>, "MakeResultIterator", <<>>,
                         IteratorMade, NoUpd)
         ELSE Fail(Plain("MakeResultIterator"), "Invalid", <<>>)

ShuffleMakeResultIterator ==
    /\ variant = "Shuffle" /\ ~crashed
    /\ \E in_array_ \in ArrayInputs :
         LET call == Call("MakeResultIterator", NullBatch, in_array_)
         IN IF in_array_ # "null"
            THEN WithDependencyInput(call, "MakeResultIterator", IteratorMade)
            ELSE ShuffleSwitch(call, <<>>, "MakeResultIterator", IteratorMade)

ProbeArraysMakeResultIterator ==
    /\ variant = "ProbeArrays" /\ ~crashed
    /\ \E frt \in FinishReturnTypeRead :
         IF frt = BatchFinishType
         THEN CallKernel(Plain("MakeResultIterator"), <<>>, "MakeResultIterator", <<>>,
                         ProbeArraysIteratorMade, NoUpd)
         ELSE Fail(Plain("MakeResultIterator"), "NotImplemented", <<>>)

(******************** SetMember and SetDependency **************************)
\* ExprVisitorImpl::SetMember, inherited by the variants without their own
BaseSetMember ==
    /\ variant \in {"Split", "Aggregate", "Encode", "Sort", "Shuffle", "ProbeArrays"}
    /\ ~crashed
    /\ Fail(Plain("SetMember"), "NotImplemented", <<>>)

\* a faulty guard: SetMember does not look at initialized_
InitCheckDropped == FALSE

\* the guard of SetMember
NotInitialized == ~initialized_

\* SetMember of Probe, Take and NTake
SideTableSetMember ==
    IF NotInitialized THEN Fail(Plain("SetMember"), "Invalid", <<>>)
    ELSE CallKernel(Plain("SetMember"), <<>>, "SetMember", <<member_record_batch_>>,
                    NoUpd, NoUpd)

ProbeSetMember == variant = "Probe" /\ ~crashed /\ SideTableSetMember
TakeSetMember == variant = "Take" /\ ~crashed /\ SideTableSetMember
NTakeSetMember == variant = "NTake" /\ ~crashed /\ SideTableSetMember

\* ExprVisitorImpl::SetDependency, inherited by the variants without their own
BaseSetDependency ==
    /\ variant # "Shuffle"
    /\ ~crashed
    /\ Fail(Plain("SetDependency"), "NotImplemented", <<>>)

\* positions a dependency iterator can be bound at
DepIndexes == {0, 1}

\* what SetDependency hands to kernel_->SetDependencyIter
DependencyIterArgs(index) == <<"dependency_iter", ToString(index)>>
\* a faulty SetDependency: the tag is not set
DependencyNotRecorded == NoUpd

\* what a successful SetDependency assigns
DependencySet == [dependency_result_type_ |-> "BatchIterator"]

ShuffleSetDependency ==
    /\ variant = "Shuffle" /\ ~crashed
    /\ \E index \in DepIndexes :
         CallKernel(DependencyCall(index), <<>>, "SetDependencyIter",
                    DependencyIterArgs(index), DependencySet, NoUpd)

(***************************** specification *******************************)
Next ==
    \/ SetDependencyResultType
    \/ SplitInit \/ AggregateInit \/ EncodeInit \/ ProbeInit \/ TakeInit
    \/ NTakeInit \/ SortArraysToIndicesInit \/ ShuffleInit \/ ProbeArraysInit
    \/ SplitEval \/ AggregateEval \/ EncodeEval \/ ProbeEval \/ TakeEval
    \/ NTakeEval \/ SortArraysToIndicesEval \/ ShuffleEval \/ ProbeArraysEval
    \/ SplitFinish \/ AggregateFinish \/ EncodeFinish \/ ProbeFinish \/ TakeFinish
    \/ NTakeFinish \/ SortArraysToIndicesFinish \/ ShuffleFinish \/ ProbeArraysFinish
    \/ BaseMakeResultIterator \/ SplitMakeResultIterator
    \/ ShuffleMakeResultIterator \/ ProbeArraysMakeResultIterator
    \/ BaseSetMember \/ ProbeSetMember \/ TakeSetMember \/ NTakeSetMember
    \/ BaseSetDependency \/ ShuffleSetDependency

Spec == Init /\ [][Next]_vars

TypeOK ==
    /\ variant \in Variants
    /\ initialized_ \in BOOLEAN
    /\ finish_return_type_ \in ResultTypes \cup {Uninit}
    /\ kernel_ \in {"null", "fresh", "evaluated", "finished"}
    /\ concat_kernel_ \in {"null", "fresh"}
    /\ dependency_result_type_ \in ResultTypes
    /\ return_type_ \in ResultTypes
    /\ last_written \in ResultTypes
    /\ Len(result_fields_) <= MaxFields
    /\ Len(col_id_list_) <= MaxFields

(******************** several operators on one context *********************)
\* result_fields_ is the context's accumulated output schema: every
\* operator that runs its Init on the context appends its fields to it.
\* Another operator's Init, seen from this operator: one more field at the
\* end of the shared list.
OtherField == [name |-> "o", type |-> "float64"]

\* (the guard leaves room under MaxFields for this operator's own Init)
OtherOperatorInit ==
    /\ ~crashed
    /\ Len(result_fields_) + MaxParams + 1 < MaxFields
    /\ result_fields_' = Append(result_fields_, OtherField)
    /\ last' = CallerRet
    /\ UNCHANGED <<cfgVars, implVars, dependency_result_type_, return_type_,
                   holderVars, crashed, factoryVars>>

\* an aggregate operator on a context other operators register fields on
SharedContextInit == Init /\ variant = "Aggregate"

SharedContextNext == OtherOperatorInit \/ AggregateInit

SharedContextSpec == SharedContextInit /\ [][SharedContextNext]_vars

(************************* CreateCodeGenerator *****************************)
\* the backend types the switch has a case for, and one int outside them
BackendTypes == {"ARROW_COMPUTE", "GANDIVA", "COMPUTE_EXT"}
CodegenTypes == BackendTypes \cup {"OTHER"}

\* the generator class each case instantiates
GeneratorOf(type) ==
    IF type = "ARROW_COMPUTE" THEN "ArrowComputeCodeGenerator"
    ELSE IF type = "GANDIVA" THEN "GandivaCodeGenerator"
    ELSE "ComputeExtCodeGenerator"

\* the expression vectors the caller may pass
ExprVectors == {<<>>, <<"e1">>, <<"e1", "e2">>}

\* what nodeVisitor.create stored through &codegen_type: a type, or nothing
CodegenWrites == CodegenTypes \cup {Uninit}

\* reading codegen_type, which has no initializer, in the switch
CodegenTypeRead(written) ==
    IF written = Uninit THEN CodegenTypes ELSE {written}

\* std::make_shared<...CodeGenerator>(schema_ptr, exprs_vector, ret_types,
\* return_when_finish)
MakeGenerator(type, exprs_vector, return_when_finish) ==
    [generator |-> GeneratorOf(type), schema_ptr |-> "schema",
     exprs_vector |-> exprs_vector, ret_types |-> "ret_types",
     return_when_finish |-> return_when_finish]

\* The expression analysis is external: it returns any status and stores a
\* type or leaves codegen_type alone.  The switch runs whatever the status
\* is; only the default case replaces the status.
CreateCodeGenerator ==
    /\ \E exprs_vector \in ExprVectors, return_when_finish \in BOOLEAN,
          status \in KStatuses, written \in CodegenWrites :
         \E type \in CodegenTypeRead(written) :
           /\ codegen_call' = [name |-> "CreateCodeGenerator",
                               exprs_vector |-> exprs_vector,
                               return_when_finish |-> return_when_finish,
                               create_status |-> status,
                               create_wrote |-> written]
           /\ codegen_type' = type
           /\ IF type \in BackendTypes
              THEN /\ codegen_out' = MakeGenerator(type, exprs_vector,
                                                   return_when_finish)
                   /\ codegen_status' = status
              ELSE /\ codegen_out' = NullGenerator
                   /\ codegen_status' = "TypeError"
    /\ UNCHANGED operatorVars

\* the factory on its own: no operator call is issued, the operator side
\* stays at one state after construction
FactoryInit ==
    /\ variant = "Aggregate" /\ func_name_ = "sum"
    /\ param_field_names_ = <<"a">>
    /\ action_param_list_ = <<>> /\ action_name_list_ = <<>>
    /\ InitImpl
    /\ member_record_batch_ = "member_batch"
    /\ dependency_result_type_ = "None"
    /\ return_type_ = "None"
    /\ result_fields_ = <<>>
    /\ result_array_ = "null"
    /\ result_batch_ = "null"
    /\ out = "null"
    /\ last = Ret(Plain("Make"), "OK", <<>>, {})
    /\ last_written = "None"
    /\ crashed = FALSE
    /\ FactoryIdle

FactoryNext == CreateCodeGenerator

FactorySpec == FactoryInit /\ [][FactoryNext]_vars

(***************************************************************************)
(* Properties.  The error kinds of the specification are arrow status      *)
(* codes: InvalidArgument is arrow::Status::Invalid; no arrow::Status the  *)
(* operators build has a kind of its own for InvalidState.                 *)
(***************************************************************************)
InvalidArgument == "Invalid"
InvalidState == "InvalidState"

IsCall(l, name) == l.call.name = name

\* the tags the specification declares each variant to support
SupportedTags(v) ==
    IF v = "Split" THEN {"Array"}
    ELSE IF v = "Shuffle" THEN {"None", "BatchIterator"}
    ELSE {"None"}

\* the parameter names the variant resolves in Init
ReferencedNames ==
    IF variant = "Split" THEN action_param_list_ ELSE param_field_names_
HasAbsentName ==
    \E i \in DOMAIN ReferencedNames :
      \A j \in DOMAIN schema_ : schema_[j].name # ReferencedNames[i]

\* C1: once Init has succeeded, every further Init returns OK, constructs no
\* kernel and leaves the result-field list, the resolved column indices and
\* the kernels as they were.
C1_SecondInitIsNoOp ==
    [][(initialized_ /\ IsCall(last', "Init")) =>
          /\ last'.status = "OK"
          /\ last'.kcalls = <<>>
          /\ UNCHANGED <<result_fields_, col_id_list_, col_id_, kernel_,
                         concat_kernel_, initialized_>>]_vars

\* a second Init has run on an initialized split-by-action operator
C1_Witness ==
    /\ variant = "Split" /\ initialized_ /\ result_fields_ # <<>>
    /\ IsCall(last, "Init") /\ last.status = "OK" /\ last.kcalls = <<>>

\* C2 (as claimed, for an initialized operator and a batch the caller
\* supplied): Eval under a tag outside the variant's supported set fails with
\* NotImplemented whatever the batch is, invokes no kernel and leaves the
\* result holders, return_type_ and finish_return_type_ unchanged.
C2_UnsupportedTagIsNotImplemented ==
    [][(/\ IsCall(last', "Eval")
        /\ initialized_
        /\ last'.call.in_record_batch_ # NullBatch
        /\ dependency_result_type_ \notin SupportedTags(variant)) =>
          /\ last'.status = "NotImplemented"
          /\ last'.kcalls = <<>>
          /\ UNCHANGED <<result_array_, result_batch_, return_type_,
                         finish_return_type_>>]_vars

\* an operator in orderly use: it has parameters, its Init has succeeded and
\* its Eval has set finish_return_type_
InOrderlyUse ==
    /\ ReferencedNames # <<>>
    /\ initialized_
    /\ finish_return_type_ # Uninit

\* C3 (as claimed, on an operator in orderly use): no operation parts return_type_ from the holder
\* written most recently; it writes a holder exactly when it sets
\* return_type_ to that holder's kind.
C3_ReturnKindNamesLastWritten ==
    [][(InOrderlyUse /\ return_type_ = last_written) =>
          return_type_' = last_written']_vars

\* the variants whose MakeResultIterator is the base class's
FinishOnlyVariants == {"Aggregate", "Encode", "Probe", "Take", "NTake", "Sort"}
\* the variants that define both Finish and MakeResultIterator on the kernel
TwoPathVariants == {"Split", "Shuffle"}

EagerVariants == {"Split", "Aggregate", "Shuffle", "Encode", "Probe", "Take",
                  "NTake", "Sort"}
DeclaredOutput(v) ==
    IF v \in {"Split", "Aggregate", "Shuffle"} THEN "Batch" ELSE "Array"

\* Eval has succeeded on this operator: it set finish_return_type_, or, for
\* encode, wrote the dictionary ids
EvalHasSucceeded ==
    IF variant = "Encode" THEN result_array_ = "ids"
    ELSE finish_return_type_ # Uninit

\* C5: on an eager variant, once Init has succeeded and Eval has succeeded, a
\* successful Finish leaves return_type_ at the variant's declared output
\* kind.
C5_FinishGivesDeclaredKind ==
    (/\ variant \in EagerVariants
     /\ initialized_
     /\ EvalHasSucceeded
     /\ IsCall(last, "Finish")
     /\ last.status = "OK") =>
        return_type_ = DeclaredOutput(variant)

\* Init, Eval and Finish have succeeded on a sort-to-indices operator
C5_Witness ==
    /\ variant = "Sort" /\ initialized_ /\ finish_return_type_ = "Array"
    /\ kernel_ = "finished" /\ result_array_ = "array"
    /\ IsCall(last, "Finish") /\ last.status = "OK"
    /\ return_type_ = "Array"

\* C6 (as claimed, on an operator in orderly use): a successful
\* MakeResultIterator leaves return_type_ = BatchIterator.
C6_IteratorSetsReturnKind ==
    [][(InOrderlyUse /\ IsCall(last', "MakeResultIterator")
          /\ last'.status = "OK") =>
          return_type_' = "BatchIterator"]_vars

\* C7: a successful SetDependency on shuffle-array-list hands the iterator and
\* the index to the kernel and sets dependency_result_type_ = BatchIterator,
\* and an Eval that follows it and succeeds is the apply: it writes
\* result_batch_ and return_type_ = Batch and leaves finish_return_type_;
\* on every other variant SetDependency fails with NotImplemented without a
\* kernel call; a SetDependency that fails leaves the tag unchanged.
C7_SetDependencySwitchesToApply ==
    [][/\ (IsCall(last', "SetDependency") /\ variant = "Shuffle"
             /\ last'.status = "OK") =>
             /\ dependency_result_type_' = "BatchIterator"
             /\ last'.kcalls = <<KCall("SetDependencyIter",
                                       DependencyIterArgs(last'.call.index), "OK")>>
       /\ (IsCall(last', "SetDependency") /\ variant # "Shuffle") =>
             /\ last'.status = "NotImplemented"
             /\ last'.kcalls = <<>>
       /\ (IsCall(last', "SetDependency") /\ last'.status # "OK") =>
             UNCHANGED dependency_result_type_
       /\ (/\ variant = "Shuffle"
           /\ IsCall(last, "SetDependency") /\ last.status = "OK"
           /\ IsCall(last', "Eval") /\ last'.status = "OK") =>
             /\ last'.wrote = {"result_batch_"}
             /\ result_batch_' = "shuffled"
             /\ return_type_' = "Batch"
             /\ UNCHANGED finish_return_type_]_vars

\* SetDependency has succeeded on an initialized shuffle-array-list operator
C7_Witness ==
    /\ variant = "Shuffle" /\ initialized_ /\ kernel_ # "null"
    /\ IsCall(last, "SetDependency") /\ last.status = "OK"
    /\ last.call.index = 1
    /\ dependency_result_type_ = "BatchIterator"

\* the variants that take a side table
SideTableVariants == {"Probe", "Take", "NTake"}

C9_EvalBeforeInitIsRefused ==
    [][(/\ ~initialized_
        /\ IsCall(last', "Eval")
        /\ last'.call.in_record_batch_ # NullBatch) =>
          /\ last'.status \in {InvalidState, InvalidArgument}
          /\ last'.kcalls = <<>>
          /\ UNCHANGED <<dependency_result_type_, return_type_,
                         finish_return_type_, holderVars>>]_vars

\* C10 (as claimed): Init of an operator one of whose parameter names is
\* absent from the schema fails with InvalidArgument.
C10_AbsentNameIsInvalidArgument ==
    (HasAbsentName /\ IsCall(last, "Init")) => last.status = InvalidArgument

\* the variants whose Init makes the kernel before it resolves the names
KernelFirstVariants == {"Encode", "Probe", "Take", "NTake", "Sort"}

\* C10 (amended): Init of an operator one of whose parameter names is absent
\* never succeeds and never sets initialized_: it fails with InvalidArgument,
\* or, on the variants that make the kernel first, with the error the
\* kernel's Make returned; a later SetMember on probe-build, take or n-take
\* still fails as not initialized without a kernel call.
C10_AbsentNameFailsInit ==
    /\ HasAbsentName => ~initialized_
    /\ (HasAbsentName /\ IsCall(last, "Init")) =>
          /\ last.status # "OK"
          /\ \/ last.status = InvalidArgument
             \/ /\ variant \in KernelFirstVariants
                /\ last.status \in KernelErrors
                /\ last.kcalls = <<KCall("Make", <<>>, last.status)>>
    /\ (HasAbsentName /\ IsCall(last, "SetMember")
          /\ variant \in SideTableVariants) =>
          /\ last.status = InvalidArgument
          /\ last.kcalls = <<>>

\* Init has failed on a shuffle-array-list operator that names an absent column
C10_Witness ==
    /\ variant = "Shuffle" /\ HasAbsentName /\ ~initialized_
    /\ IsCall(last, "Init") /\ last.status = InvalidArgument
    /\ kernel_ = "null"

\* the column indices Init resolved: col_id_ on the single-column variants,
\* col_id_list_ on the others
SingleColumnVariants == {"Probe", "Take", "NTake", "Sort"}
ResolvedIndexes ==
    IF variant \in SingleColumnVariants THEN {col_id_}
    ELSE {col_id_list_[i] : i \in DOMAIN col_id_list_}

\* C11 (as claimed, on an initialized operator and a batch the caller
\* supplied): Eval under a supported tag with a resolved column index at or
\* beyond the batch's column count fails with InvalidArgument and calls no
\* kernel.
C11_IndexBeyondBatchIsInvalidArgument ==
    [][(/\ initialized_
        /\ IsCall(last', "Eval")
        /\ dependency_result_type_ \in SupportedTags(variant)
        /\ last'.call.in_record_batch_ # NullBatch
        /\ \E c \in ResolvedIndexes : c >= last'.call.in_record_batch_) =>
          /\ last'.status = InvalidArgument
          /\ last'.kcalls = <<>>]_vars

\* the last call was an Eval that succeeded on a batch the caller supplied
EvalJustSucceeded ==
    /\ IsCall(last, "Eval")
    /\ last.status = "OK"
    /\ last.call.in_record_batch_ # NullBatch

\* C12 (as claimed, right after a successful Eval on an operator in orderly
\* use): MakeResultIterator of shuffle-array-list called while the context
\* holds no indices array does not succeed.
C12_ApplyWithoutIndicesFails ==
    [][(/\ variant = "Shuffle"
        /\ InOrderlyUse
        /\ EvalJustSucceeded
        /\ IsCall(last', "MakeResultIterator")
        /\ last'.call.in_array_ = "null") =>
          last'.status # "OK"]_vars

\* C13 (as claimed, on an initialized operator with parameters):
\* MakeResultIterator of probe-arrays succeeds only after an Eval has
\* succeeded, that is, after finish_return_type_ has been assigned.
C13_IteratorOnlyAfterEval ==
    [][(/\ variant = "ProbeArrays"
        /\ ReferencedNames # <<>>
        /\ initialized_
        /\ IsCall(last', "MakeResultIterator")
        /\ last'.status = "OK") =>
          finish_return_type_ # Uninit]_vars

\* C14 (as claimed, for an aggregate whose parameter names all resolve): Init
\* of an aggregate whose function name is not a recognised one fails with
\* TypeError and the operator does not become initialized.
C14_UnknownFunctionIsTypeError ==
    (/\ variant = "Aggregate"
     /\ func_name_ \notin AggFuncNames
     /\ ReferencedNames # <<>>
     /\ ~HasAbsentName
     /\ IsCall(last, "Init")) =>
        /\ last.status = "TypeError"
        /\ ~initialized_

\* the fields of the operator's parameter columns, in order
ParamFields ==
    [i \in DOMAIN ReferencedNames |-> GetFieldByName(schema_, ReferencedNames[i])]

\* a first successful Init of an aggregate operator
AggregateInitSucceeds ==
    /\ variant = "Aggregate"
    /\ ~initialized_
    /\ IsCall(last', "Init")
    /\ last'.status = "OK"

\* C15 (as claimed, for the parameter lists on which every reading of "the
\* count column" agrees): a successful aggregate Init appends to
\* result_fields_ its parameter fields followed by one count field for
\* sum_count, its one parameter field for avgByCount over a single column,
\* and exactly its parameter fields for every function other than these two.
C15_RegistersParameterFields ==
    [][(AggregateInitSucceeds
          /\ (func_name_ = "avgByCount" => Len(ParamFields) = 1)) =>
          result_fields_' = result_fields_ \o
              (IF func_name_ = "sum_count" THEN Append(ParamFields, CntField)
               ELSE ParamFields)]_vars

\* C16 (as claimed, on an operator in orderly use and a batch the caller
\* supplied): once Finish or MakeResultIterator has succeeded on the
\* operator's kernel, no Eval calls the kernel's Evaluate.
C16_NoEvaluateAfterFinish ==
    [][(/\ InOrderlyUse
        /\ kernel_ = "finished"
        /\ IsCall(last', "Eval")
        /\ last'.call.in_record_batch_ # NullBatch) =>
          "Evaluate" \notin Methods(last'.kcalls)]_vars

\* the kernel methods that Eval, Finish and MakeResultIterator run
WorkMethods == {"Evaluate", "concat.Evaluate", "Finish", "MakeResultIterator"}

\* C17: when a kernel's Evaluate, Finish or MakeResultIterator returns an
\* error inside Eval, Finish or MakeResultIterator, that call is the last
\* kernel call of the handler and the only one of that method, the handler
\* returns the error the kernel returned, and return_type_,
\* finish_return_type_ and dependency_result_type_ keep their values.
C17_KernelErrorIsReturnedUnchanged ==
    [][(\/ IsCall(last', "Eval")
        \/ IsCall(last', "Finish")
        \/ IsCall(last', "MakeResultIterator")) =>
          \A i \in DOMAIN last'.kcalls :
            (last'.kcalls[i].m \in WorkMethods /\ last'.kcalls[i].st # "OK") =>
              /\ i = Len(last'.kcalls)
              /\ \A j \in 1..(i - 1) : last'.kcalls[j].m # last'.kcalls[i].m
              /\ last'.status = last'.kcalls[i].st
              /\ UNCHANGED <<return_type_, finish_return_type_,
                             dependency_result_type_>>]_vars

\* the kernel's Finish has failed inside Finish of a sort-to-indices operator
\* whose Eval had succeeded
C17_Witness ==
    /\ variant = "Sort" /\ initialized_ /\ finish_return_type_ = "Array"
    /\ kernel_ = "evaluated"
    /\ IsCall(last, "Finish")
    /\ last.kcalls = <<KCall("Finish", <<>>, "IOError")>>
    /\ last.status = "IOError"
    /\ return_type_ = "None"

\* the variants that index the first element of their resolved list
FirstElementVariants == {"Aggregate", "Encode", "ProbeArrays"}

\* C18 (as claimed): Init of an aggregate, encode or probe-arrays operator
\* with an empty parameter list fails with InvalidArgument, so none of them
\* is initialized with an empty col_id_list_.
C18_EmptyParametersAreInvalidArgument ==
    (/\ variant \in FirstElementVariants
     /\ param_field_names_ = <<>>
     /\ IsCall(last, "Init")) =>
        /\ last.status = InvalidArgument
        /\ ~initialized_

\* the variants that compose several key columns into one
KeyedVariants == {"Encode", "ProbeArrays"}

\* the batch of the last call holds every column Init resolved
BatchHoldsResolved ==
    /\ last.call.in_record_batch_ # NullBatch
    /\ \A c \in ResolvedIndexes : c >= 0 /\ c < last.call.in_record_batch_

\* C19: on an initialized encode or probe-arrays operator, an Eval under tag
\* None on a batch that holds the resolved columns calls the composition
\* kernel first, on the resolved columns, exactly when the operator has more
\* than one key column, and then hands the composed column to the main
\* kernel; with one key column the only kernel call is the main kernel's
\* Evaluate on that column of the batch.
C19_KeysComposedBeforeMainKernel ==
    (/\ variant \in KeyedVariants
     /\ initialized_
     /\ ReferencedNames # <<>>
     /\ IsCall(last, "Eval")
     /\ dependency_result_type_ = "None"
     /\ BatchHoldsResolved) =>
        IF Len(ReferencedNames) > 1
        THEN /\ last.kcalls # <<>>
             /\ last.kcalls[1].m = "concat.Evaluate"
             /\ last.kcalls[1].arg =
                    Columns(last.call.in_record_batch_, col_id_list_)
             /\ IF last.kcalls[1].st = "OK"
                THEN /\ Len(last.kcalls) = 2
                     /\ last.kcalls[2].m = "Evaluate"
                     /\ last.kcalls[2].arg = <<"composed">>
                ELSE Len(last.kcalls) = 1
        ELSE /\ Len(last.kcalls) = 1
             /\ last.kcalls[1].m = "Evaluate"
             /\ last.kcalls[1].arg =
                    <<Column(last.call.in_record_batch_, col_id_list_[1])>>

\* an encode operator over two key columns has composed them and encoded
\* the composed column
C19_Witness ==
    /\ variant = "Encode" /\ param_field_names_ = <<"a", "b">> /\ initialized_
    /\ IsCall(last, "Eval") /\ last.status = "OK"
    /\ last.call.in_record_batch_ = 2
    /\ Methods(last.kcalls) = {"concat.Evaluate", "Evaluate"}
    /\ result_array_ = "ids"

\* C20 (as claimed): Init of a probe-build, take, n-take or sort-to-indices
\* operator whose parameter list does not have exactly one element fails
\* with InvalidArgument.
C20_NotOneParameterIsInvalidArgument ==
    (/\ variant \in SingleColumnVariants
     /\ Len(param_field_names_) # 1
     /\ IsCall(last, "Init")) =>
        last.status = InvalidArgument

\* C20 (amended): Init of a probe-build, take, n-take or sort-to-indices
\* operator whose parameter list does not have exactly one element never
\* succeeds: it makes the kernel first and returns the error of that
\* construction if it fails, InvalidArgument otherwise; the operator stays
\* uninitialized, nothing is appended to result_fields_ and col_id_ is not
\* assigned.
C20_NotOneParameterFailsInit ==
    [][(/\ variant \in SingleColumnVariants
        /\ Len(param_field_names_) # 1
        /\ IsCall(last', "Init")) =>
          /\ ~initialized_'
          /\ \/ /\ last'.status = InvalidArgument
                /\ last'.kcalls = <<KCall("Make", <<>>, "OK")>>
             \/ /\ last'.status \in KernelErrors
                /\ last'.kcalls = <<KCall("Make", <<>>, last'.status)>>
          /\ UNCHANGED <<result_fields_, col_id_>>]_vars

\* Init has refused a sort-to-indices operator over two columns
C20_Witness ==
    /\ variant = "Sort" /\ param_field_names_ = <<"a", "b">>
    /\ ~initialized_ /\ kernel_ = "fresh" /\ result_fields_ = <<>>
    /\ IsCall(last, "Init") /\ last.status = InvalidArgument

\* C21 (as claimed, right after a successful Eval on an operator in orderly
\* use): a successful Finish or MakeResultIterator of shuffle-array-list has
\* handed the indices array to the kernel through SetDependencyInput before
\* it invoked the kernel's Finish / MakeResultIterator in that call.
C21_IndicesHandedBeforeKernel ==
    [][(/\ variant = "Shuffle"
        /\ InOrderlyUse
        /\ EvalJustSucceeded
        /\ (IsCall(last', "Finish") \/ IsCall(last', "MakeResultIterator"))
        /\ last'.status = "OK") =>
          /\ Len(last'.kcalls) = 2
          /\ last'.kcalls[1] = KCall("SetDependencyInput", <<"indices">>, "OK")
          /\ last'.kcalls[2].m = last'.call.name]_vars

\* C22 (as claimed): an Init that fails leaves result_fields_ and the
\* operator's resolved column indices exactly as they were before the call.
C22_FailedInitChangesNothing ==
    [][(/\ ~initialized_
        /\ IsCall(last', "Init")
        /\ last'.status # "OK") =>
          UNCHANGED <<result_fields_, col_id_list_>>]_vars

\* C23 (as claimed): the kernel of an aggregate operator whose function takes
\* a data type is constructed with the type of the operator's own first
\* parameter column, whatever the context's result_fields_ held before its
\* Init.
C23_KernelTypeIsOwnFirstParameter ==
    (/\ variant = "Aggregate"
     /\ func_name_ \in AggTypedFuncs
     /\ ReferencedNames # <<>>
     /\ IsCall(last, "Init")
     /\ last.status = "OK"
     /\ last.kcalls # <<>>) =>
        last.kcalls = <<KCall("Make", <<ParamFields[1].type>>, "OK")>>

\* the variants whose Finish switches on finish_return_type_
FinishSwitchVariants == {"Split", "Aggregate", "Probe", "Take", "NTake", "Sort",
                         "Shuffle"}

\* C24 (as claimed, on the variants whose Finish reads finish_return_type_):
\* on an initialized operator on which no Eval has assigned
\* finish_return_type_, Finish and MakeResultIterator fail, do not invoke the
\* kernel's Finish / MakeResultIterator and leave return_type_ and the
\* result holders unchanged.
C24_FinishBeforeEvalFails ==
    [][(/\ variant \in FinishSwitchVariants
        /\ ReferencedNames # <<>>
        /\ initialized_
        /\ finish_return_type_ = Uninit
        /\ (IsCall(last', "Finish") \/ IsCall(last', "MakeResultIterator"))) =>
          /\ last'.status # "OK"
          /\ Methods(last'.kcalls) \cap {"Finish", "MakeResultIterator"} = {}
          /\ UNCHANGED <<return_type_, result_array_, result_batch_, out>>]_vars

\* C25: no Eval changes dependency_result_type_, with one exception: a
\* successful Eval of split-by-action, which runs only under the tag Array,
\* resets it to None; an Eval of split-by-action under any other tag, so
\* also the one that directly follows a successful Eval, fails with
\* NotImplemented without a kernel call; an Eval that does not succeed leaves
\* the tag unchanged on every variant.
C25_OnlySplitEvalResetsTag ==
    [][IsCall(last', "Eval") =>
          /\ (variant = "Split" /\ last'.status = "OK") =>
                /\ dependency_result_type_ = "Array"
                /\ dependency_result_type_' = "None"
          /\ (variant # "Split" \/ last'.status # "OK") =>
                UNCHANGED dependency_result_type_
          /\ (variant = "Split" /\ dependency_result_type_ # "Array") =>
                /\ last'.status = "NotImplemented"
                /\ last'.kcalls = <<>>
          /\ (variant = "Split" /\ IsCall(last, "Eval") /\ last.status = "OK") =>
                last'.status = "NotImplemented"]_vars

\* a second Eval has been refused on a split-by-action operator whose first
\* Eval had succeeded and reset the tag
C25_Witness ==
    /\ variant = "Split" /\ initialized_ /\ finish_return_type_ = "Batch"
    /\ kernel_ = "evaluated"
    /\ dependency_result_type_ = "None"
    /\ IsCall(last, "Eval") /\ last.status = "NotImplemented"
    /\ last.kcalls = <<>>

\* CreateCodeGenerator has returned
FactoryCalled == codegen_call # NoCall

\* C26 (as claimed): CreateCodeGenerator returns OK exactly when it hands
\* back a non-null generator; when the expression analysis reports an error
\* or the backend type is not one of the three, *out is null and the status
\* is an error, TypeError for an unrecognized type; the generator
\* instantiated is the one of the backend type the switch read.
C26_OkExactlyWhenGenerator ==
    FactoryCalled =>
        /\ (codegen_status = "OK") <=> (codegen_out # NullGenerator)
        /\ (codegen_call.create_status # "OK" \/ codegen_type \notin BackendTypes) =>
              /\ codegen_out = NullGenerator
              /\ codegen_status # "OK"
        /\ codegen_type \notin BackendTypes => codegen_status = "TypeError"
        /\ codegen_out # NullGenerator =>
              codegen_out.generator = GeneratorOf(codegen_type)

====
